---- MODULE Spec2Model ----
(***************************************************************************)
(* ChatterBox multi-dialect TTS backend: the ModelLoader singleton (model  *)
(* cache, vocabulary patch, device) and the TTSService that synthesizes on *)
(* top of it.  Each caller is a thread whose position inside the method it *)
(* runs is kept in th[t].pc; the positions are named after the source line *)
(* of backend/services/model_loader.py (lm_NN, gm_NN) and of               *)
(* backend/services/tts_service.py (ga_NN) that is executed next.          *)
(***************************************************************************)
EXTENDS Integers, Sequences, FiniteSets, TLC

VARIABLES
    models,              \* ModelLoader._models: dialect key -> model handle
    probes,              \* what torch.backends.mps / torch.cuda .is_available() answer on this host
    device,              \* ModelLoader._device
    multilingual_vocab,  \* text_tokens_dict_size of the config T3Config.multilingual() returns
    dir_exists,          \* names d for which models_dir / d exists
    gen,                 \* per name: how many handles from_local has produced so far
    output_dir,          \* generated_audio: file name -> "complete" | "partial"
    threads,             \* the callers that exist in this run
    texts,               \* the input texts the callers synthesize in this run
    inputs,              \* the other arguments and outcomes this run draws from
    ref_files,           \* the reference audio files that exist on disk
    th,                  \* per caller: the call it runs and where it is in it
    ncalls               \* how many calls the callers have started

vars == <<models, probes, device, multilingual_vocab, dir_exists, gen, output_dir,
          threads, texts, inputs, ref_files, th, ncalls>>

\* ---------------------------------------------------------------- bounds
MaxCalls == 3      \* calls started in one run
MaxThreads == 2    \* callers in the concurrent specification
MaxTextLen == 4    \* longest input text of the text-normalization runs
TextCalls == 2     \* calls per run in the text-normalization runs
SynthCalls == 2    \* calls per run in the synthesis runs
MaxSamples == 2    \* samples of a waveform in the normalization runs
MaxAmp == 2        \* largest absolute sample value in the normalization runs

\* ------------------------------------------------------------- constants
FineTunedVocab == 2454
DefaultVocab == 2352

DialectList == <<"egyptian", "emirates", "ksa", "kuwaiti">>
Dialects == {DialectList[i] : i \in 1..Len(DialectList)}
\* a dialect argument outside the closed set
OtherNames == {"msa"}
Names == Dialects \cup OtherNames

\* what ChatterboxMultilingualTTS.from_local may raise
InstErrors == {"FileNotFoundError", "RuntimeError"}
\* what model.generate / torchaudio.save may raise
GenErrors == {"RuntimeError"}

\* the five artifact components whose presence load_model logs
ModelFiles == {"t3_23lang.safetensors", "s3gen.pt", "ve.pt", "conds.pt", "mtl_tokenizer.json"}

\* ------------------------------------------------------------ the device
DetectDevice(mps, cuda) ==
    IF mps THEN "mps" ELSE IF cuda THEN "cuda" ELSE "cpu"

\* ------------------------------------------------------------- text
Whitespace == {" ", "\t"}

\* the characters of the input texts
Alphabet == {"a", "b", " ", "\t"}
AllTexts == UNION {[1..k -> Alphabet] : k \in 0..MaxTextLen}

\* the text the callers pass to generate_audio
OneText == { <<" ", "a", " ", " ", "b">> }

\* two texts that differ only in whitespace
TwoTexts == { <<"a", " ", "b">>, <<" ", "a", " ", " ", "b">> }

\* str.split(): the maximal runs of non-whitespace characters, in order
RECURSIVE SplitFrom(_, _, _)
SplitFrom(s, i, cur) ==
    IF i > Len(s)
    THEN IF cur = <<>> THEN <<>> ELSE <<cur>>
    ELSE IF s[i] \in Whitespace
         THEN IF cur = <<>> THEN SplitFrom(s, i + 1, <<>>)
                            ELSE <<cur>> \o SplitFrom(s, i + 1, <<>>)
         ELSE SplitFrom(s, i + 1, Append(cur, s[i]))

split(s) == SplitFrom(s, 1, <<>>)

\* " ".join(tokens)
RECURSIVE join(_)
join(toks) ==
    IF toks = <<>> THEN <<>>
    ELSE IF Len(toks) = 1 THEN toks[1]
    ELSE toks[1] \o <<" ">> \o join(Tail(toks))

preprocess_text_NoCollapse(text) ==
    [i \in 1..Len(text) |-> IF text[i] \in Whitespace THEN " " ELSE text[i]]

\* lines 25-30: " ".join(text.split())
preprocess_text(text) == join(split(text))

\* hashlib.md5(text.encode()).hexdigest()[:8] of the texts of Texts
text_hash(text) ==
    IF text = <<"a", " ", "b">> THEN "0cc9cd4d"
    ELSE IF text = <<" ", "a", " ", " ", "b">> THEN "16536272"
    ELSE "other"

default_output_path_Suffixed(dialect, text) ==
    <<dialect, IF ncalls > 1 THEN "other" ELSE text_hash(text)>>

\* output_dir / f"{dialect}_{text_hash}.wav"
default_output_path(dialect, text) == <<dialect, text_hash(text)>>

\* --------------------------------------------------- sampling parameters
\* the five numeric arguments of generate_audio, in hundredths
DefaultParams ==
    [temperature |-> 80, repetition_penalty |-> 200, top_p |-> 100, min_p |-> 5,
     cfg_weight |-> 50]
\* values outside every sensible range
WildParams ==
    [temperature |-> -100, repetition_penalty |-> 0, top_p |-> 250, min_p |-> 300,
     cfg_weight |-> -7]
NoParams ==
    [temperature |-> 0, repetition_penalty |-> 0, top_p |-> 0, min_p |-> 0, cfg_weight |-> 0]

\* gen_kwargs plus the positional text, as model.generate receives them;
\* audio_prompt_path is "absent" when the key is not in gen_kwargs
NoKwargs ==
    [text |-> <<>>, language_id |-> "none", temperature |-> 0, repetition_penalty |-> 0,
     top_p |-> 0, min_p |-> 0, cfg_weight |-> 0, audio_prompt_path |-> "absent"]

gen_kwargs_NoExistsCheck(processed_text, p, ref, files) ==
    [text |-> processed_text, language_id |-> "ar",
     temperature |-> p.temperature, repetition_penalty |-> p.repetition_penalty,
     top_p |-> p.top_p, min_p |-> p.min_p, cfg_weight |-> p.cfg_weight,
     audio_prompt_path |-> IF ref # "None" THEN ref ELSE "absent"]

gen_kwargs_Clamped(processed_text, p, ref, files) ==
    [text |-> processed_text, language_id |-> "ar",
     temperature |-> IF p.temperature < 0 THEN 0 ELSE p.temperature,
     repetition_penalty |-> p.repetition_penalty,
     top_p |-> IF p.top_p > 100 THEN 100 ELSE p.top_p,
     min_p |-> p.min_p, cfg_weight |-> p.cfg_weight,
     audio_prompt_path |-> IF ref # "None" /\ ref \in files THEN ref ELSE "absent"]

\* lines 88-100: gen_kwargs, with the reference only if given and existing
gen_kwargs(processed_text, p, ref, files) ==
    [text |-> processed_text, language_id |-> "ar",
     temperature |-> p.temperature, repetition_penalty |-> p.repetition_penalty,
     top_p |-> p.top_p, min_p |-> p.min_p, cfg_weight |-> p.cfg_weight,
     audio_prompt_path |-> IF ref # "None" /\ ref \in files THEN ref ELSE "absent"]

\* modal_api.py lines 251-263: the raw text, and the reference whenever one
\* is given
modal_gen_kwargs(text, p, ref) ==
    [text |-> text, language_id |-> "ar",
     temperature |-> p.temperature, repetition_penalty |-> p.repetition_penalty,
     top_p |-> p.top_p, min_p |-> p.min_p, cfg_weight |-> p.cfg_weight,
     audio_prompt_path |-> IF ref # "None" THEN ref ELSE "absent"]

\* the reference_audio_path arguments other than None
RefPaths == {"temp_reference_audio/reference_1.wav"}

\* ------------------------------------------------------------ waveforms
\* a tensor: dim 1 is a sequence of samples, dim 2 a sequence of channels
NoWav == [dim |-> 0, data |-> <<>>]
OneWav == [dim |-> 1, data |-> <<3, -5>>]

\* a second waveform, already two-dimensional
StereoWav == [dim |-> 2, data |-> <<<<1, -2>>, <<4, 0>>>>]

\* every waveform model.generate may return: flat, or channels x samples
Amplitudes == (0 - MaxAmp)..MaxAmp
Shapes == {sh \in (1..MaxSamples) \X (1..MaxSamples) : sh[1] * sh[2] <= MaxSamples}
AllWavs ==
    {[dim |-> 1, data |-> d] : d \in UNION {[1..n -> Amplitudes] : n \in 1..MaxSamples}}
    \cup {[dim |-> 2, data |-> d] :
             d \in UNION {[1..sh[1] -> [1..sh[2] -> Amplitudes]] : sh \in Shapes}}

Abs(x) == IF x < 0 THEN -x ELSE x

\* audio.unsqueeze(0)
unsqueeze0(audio) == [dim |-> audio.dim + 1, data |-> <<audio.data>>]

Samples(audio) == {audio.data[c][i] : c \in DOMAIN audio.data, i \in 1..Len(audio.data[1])}

SetMax(S) == CHOOSE m \in S : \A x \in S : x <= m

max_abs_Signed(audio) == SetMax(Samples(audio))

\* torch.max(torch.abs(audio))
max_abs(audio) == SetMax({Abs(x) : x \in Samples(audio)})

\* audio / peak: every sample becomes the fraction <<sample, peak>>; with
\* peak 0 this is 0/0, which torch evaluates to nan
divide(audio, peak) ==
    [dim |-> audio.dim,
     data |-> [c \in DOMAIN audio.data |->
                 [i \in DOMAIN audio.data[c] |-> <<audio.data[c][i], peak>>]]]

\* _save_audio, lines 131-136: the tensor handed to torchaudio.save
normalized(audio) ==
    LET a2 == IF audio.dim = 1 THEN unsqueeze0(audio) ELSE audio
    IN divide(a2, max_abs(a2))

\* a file of the output directory: how far it was written, the audio in it,
\* and the arguments of the call that wrote it
File(status, audio, by) == [status |-> status, audio |-> audio, by |-> by]
Arguments(r) == [text |-> r.text, dialect |-> r.dialect, params |-> r.params, ref |-> r.ref]

\* ------------------------------------------------------------- handles
NoHandle == [dialect |-> "none", gen |-> 0, vocab |-> 0, device |-> "none"]

NewHandle_ProbesAgain(d) ==
    [dialect |-> d, gen |-> gen[d] + 1, vocab |-> multilingual_vocab,
     device |-> IF probes.cuda THEN "cuda" ELSE "cpu"]

\* the object from_local returns: a new identity (dialect, gen), configured
\* by whatever T3Config.multilingual() returns at that moment
NewHandle(d) ==
    [dialect |-> d, gen |-> gen[d] + 1, vocab |-> multilingual_vocab, device |-> device]

EmptyCache == [x \in {} |-> NoHandle]

Put(cache, d, h) == [x \in DOMAIN cache \cup {d} |-> IF x = d THEN h ELSE cache[x]]

\* ------------------------------------------------------------- callers
\* the values generate_audio can hand back: None, a Path, or a tuple of a
\* Path and the elapsed time
PyNone == [type |-> "None", path |-> <<>>, time |-> "none"]
PyPath(p) == [type |-> "Path", path |-> p, time |-> "none"]
PyPathAndTime(p) == [type |-> "tuple", path |-> p, time |-> "inference_time"]

NoRet == [kind |-> "none", val |-> NoHandle, path |-> PyNone, exc |-> "none", origin |-> "none"]
Returned(h) == [kind |-> "ok", val |-> h, path |-> PyNone, exc |-> "none", origin |-> "none"]
\* modal_api.py line 288: return buffer.read(), inference_time
ReturnedBytes ==
    [kind |-> "ok", val |-> NoHandle, path |-> [type |-> "tuple", path |-> <<>>, time |-> "inference_time"],
     exc |-> "none", origin |-> "none"]
\* line 123: return output_path, inference_time
ReturnedPath(p) ==
    [kind |-> "ok", val |-> NoHandle, path |-> PyPathAndTime(p), exc |-> "none", origin |-> "none"]
Raised(e, where) == [kind |-> "raise", val |-> NoHandle, path |-> PyNone, exc |-> e, origin |-> where]

\* ------------------------------------------------------- HTTP handlers
\* a TTSRequest or CompareRequest; fields a request type lacks stay "None"
NoRequest ==
    [text |-> <<>>, dialect |-> "none", params |-> NoParams, reference_audio_file |-> "None",
     sample_id |-> "None", use_sample_as_reference |-> FALSE]
TTSRequest(text, d, p, file) ==
    [text |-> text, dialect |-> d, params |-> p, reference_audio_file |-> file,
     sample_id |-> "None", use_sample_as_reference |-> FALSE]
CompareRequest(d, id, p, use) ==
    [text |-> <<>>, dialect |-> d, params |-> p, reference_audio_file |-> "None",
     sample_id |-> id, use_sample_as_reference |-> use]

\* TEMP_REFERENCE_DIR / request.reference_audio_file
TempRefPath(file) == IF file = "reference_1.wav" THEN "temp_reference_audio/reference_1.wav"
                     ELSE "temp_reference_audio/other.wav"
\* TRAINING_SAMPLES_DIR / request.dialect / sample['filename']
SamplePath(d, filename) ==
    IF d = "egyptian" /\ filename = "sample1.wav" THEN "training_samples/egyptian/sample1.wav"
    ELSE IF d = "emirates" /\ filename = "sample1.wav" THEN "training_samples/emirates/sample1.wav"
    ELSE "training_samples/other.wav"

\* training_samples/metadata.json: one sample per dialect
metadata ==
    [d \in Dialects |-> {[id |-> "sample1", text |-> <<"a", " ", "b">>, filename |-> "sample1.wav"]}]

NoResponse == [kind |-> "none", status |-> 0, path |-> PyNone]
\* FileResponse(path=audio_path, ...)
FileResponse(audio_path) == [kind |-> "FileResponse", status |-> 200, path |-> audio_path]
\* raise HTTPException(status_code=...)
HTTPException(code) == [kind |-> "HTTPException", status |-> code, path |-> PyNone]

Respond_Always500(handler, ret) ==
    IF ret.kind = "ok" THEN FileResponse(ret.path) ELSE HTTPException(500)

\* the except clauses of generate_tts (lines 184-195) and of
\* compare_with_sample (lines 311-315)
Respond(handler, ret) ==
    IF ret.kind = "ok" THEN FileResponse(ret.path)
    ELSE IF handler = "generate_tts"
         THEN (IF ret.exc = "ValueError" THEN HTTPException(400)
               ELSE IF ret.exc = "FileNotFoundError" THEN HTTPException(404)
               ELSE HTTPException(500))
         ELSE HTTPException(500)

NoOutcomes == [x \in {} |-> "none"]

Idle ==
    [pc |-> "idle", op |-> "none", dialect |-> "none", text |-> <<>>, processed |-> <<>>,
     params |-> NoParams, ref |-> "None", kwargs |-> NoKwargs, wav |-> NoWav,
     saved |-> NoWav,
     handler |-> "none", req |-> NoRequest, resp |-> NoResponse,
     idx |-> 0, model |-> NoHandle, ret |-> NoRet, warned |-> FALSE,
     nres |-> 0, fs |-> 0, inst |-> 0, ngen |-> 0, nwrite |-> 0,
     snap |-> EmptyCache, snap_out |-> EmptyCache, gen0 |-> [d \in Names |-> 0],
     prev |-> "none", outcomes |-> NoOutcomes]

\* a caller can start a call when it is not inside one
Ready(t) == th[t].pc \in {"idle", "done"}

\* a call starts: its arguments, and what the caller saw before it (history)
Begin(t, op, d, pc) ==
    [Idle EXCEPT !.pc = pc, !.op = op, !.dialect = d,
                 !.snap = models, !.snap_out = output_dir, !.gen0 = gen,
                 !.prev = IF th[t].op = "clear_cache" THEN "clear_cache"
                          ELSE IF th[t].ret.kind = "raise" /\ th[t].dialect = d
                          THEN th[t].ret.origin ELSE "none"]

Done(r, ret) == [r EXCEPT !.pc = "done", !.ret = ret]

\* generate_audio hands `ret` back to the caller, or to the handler that
\* called it, which turns it into a response
GaFinish(r, ret) ==
    IF r.handler = "none" THEN Done(r, ret)
    ELSE [Done(r, ret) EXCEPT !.resp = Respond(r.handler, ret)]

\* how the callers of load_model tell its exceptions apart
\* (except FileNotFoundError / except ValueError / except Exception)
Classify(exc) ==
    IF exc = "ValueError" THEN "InvalidDialect"
    ELSE IF exc = "FileNotFoundError" THEN "ModelNotFound"
    ELSE "ModelLoadFailed"

LmFinish_NoCatch(r, ret) ==
    CASE r.op \in {"load_model", "get_model"} -> Done(r, ret)
      [] r.op = "load_all_models" ->
            LET out == [x \in DOMAIN r.outcomes \cup {r.dialect} |->
                           IF x = r.dialect
                           THEN (IF ret.kind = "ok" THEN "ok" ELSE ret.exc)
                           ELSE r.outcomes[x]]
            IN IF ret.kind = "raise"
               THEN Done([r EXCEPT !.outcomes = out], ret)
               ELSE IF r.idx < Len(DialectList)
               THEN [r EXCEPT !.pc = "lm_41", !.idx = r.idx + 1,
                              !.dialect = DialectList[r.idx + 1],
                              !.model = NoHandle, !.outcomes = out]
               ELSE Done([r EXCEPT !.outcomes = out, !.model = NoHandle], Returned(NoHandle))
      [] r.op = "generate_audio" ->
            IF ret.kind = "ok"
            THEN [r EXCEPT !.pc = "ga_102", !.model = ret.val]
            ELSE GaFinish(r, ret)

LmFinish_Wraps(r, ret) ==
    CASE r.op \in {"load_model", "get_model"} -> Done(r, ret)
      [] r.op = "load_all_models" ->
            LET out == [x \in DOMAIN r.outcomes \cup {r.dialect} |->
                           IF x = r.dialect
                           THEN (IF ret.kind = "ok" THEN "ok" ELSE ret.exc)
                           ELSE r.outcomes[x]]
            IN IF r.idx < Len(DialectList)
               THEN [r EXCEPT !.pc = "lm_41", !.idx = r.idx + 1,
                              !.dialect = DialectList[r.idx + 1],
                              !.model = NoHandle, !.outcomes = out]
               ELSE Done([r EXCEPT !.outcomes = out, !.model = NoHandle], Returned(NoHandle))
      [] r.op = "generate_audio" ->
            IF ret.kind = "ok"
            THEN [r EXCEPT !.pc = "ga_102", !.model = ret.val]
            ELSE GaFinish(r, Raised("RuntimeError", ret.origin))

\* load_model / get_model hands `ret` back to the code that called it
LmFinish(r, ret) ==
    CASE r.op \in {"load_model", "get_model"} -> Done(r, ret)
      [] r.op = "load_all_models" ->
            LET out == [x \in DOMAIN r.outcomes \cup {r.dialect} |->
                           IF x = r.dialect
                           THEN (IF ret.kind = "ok" THEN "ok" ELSE ret.exc)
                           ELSE r.outcomes[x]]
            IN IF r.idx < Len(DialectList)
               THEN [r EXCEPT !.pc = "lm_41", !.idx = r.idx + 1,
                              !.dialect = DialectList[r.idx + 1],
                              !.model = NoHandle, !.outcomes = out]
               ELSE Done([r EXCEPT !.outcomes = out, !.model = NoHandle], Returned(NoHandle))
      [] r.op = "generate_audio" ->
            IF ret.kind = "ok"
            THEN [r EXCEPT !.pc = "ga_102", !.model = ret.val]
            ELSE GaFinish(r, ret)

\* -------------------------------------------------------------- Init
\* the class body of ModelLoader runs once: _models = {}, _device from the probes
InitWorld(mpsProbes, cudaProbes, dirSets) ==
    /\ models = EmptyCache
    /\ probes \in [mps : mpsProbes, cuda : cudaProbes]
    /\ device = DetectDevice(probes.mps, probes.cuda)
    /\ multilingual_vocab = DefaultVocab
    /\ dir_exists \in dirSets
    /\ gen = [d \in Names |-> 0]
    /\ output_dir = EmptyCache
    /\ ncalls = 0

\* default sampling parameters, no reference audio, one waveform
PlainInputs ==
    [params |-> {DefaultParams}, refs |-> {"None"}, wavs |-> {OneWav}, calls |-> MaxCalls]

\* one caller at a time, on a host without accelerator
Init ==
    /\ InitWorld({FALSE}, {FALSE}, SUBSET Names)
    /\ threads = {1}
    /\ texts = OneText
    /\ inputs = PlainInputs
    /\ ref_files = {}
    /\ th = [t \in threads |-> Idle]

\* several callers whose calls interleave, the four dialects downloaded
InitConc ==
    /\ InitWorld({FALSE}, {FALSE}, {Dialects})
    /\ threads = 1..MaxThreads
    /\ texts = OneText
    /\ inputs = PlainInputs
    /\ ref_files = {}
    /\ th = [t \in threads |-> Idle]

\* ------------------------------------------------------- ModelLoader
UnchangedWorld == UNCHANGED <<probes, device, dir_exists, threads, texts, inputs, ref_files>>
StartCall == ncalls < inputs.calls /\ ncalls' = ncalls + 1
InCall == UNCHANGED ncalls

CallLoadModel(t, d) ==
    /\ Ready(t)
    /\ th' = [th EXCEPT ![t] = Begin(t, "load_model", d, "lm_41")]
    /\ UNCHANGED <<models, multilingual_vocab, gen, output_dir>>
    /\ StartCall
    /\ UnchangedWorld

Lm41_NoCacheCheck(t) ==
    /\ th[t].pc = "lm_41"
    /\ th' = [th EXCEPT ![t].pc = "lm_48"]
    /\ UNCHANGED <<models, multilingual_vocab, gen, output_dir>>
    /\ InCall
    /\ UnchangedWorld

\* line 41: if dialect in self._models
Lm41(t) ==
    /\ th[t].pc = "lm_41"
    /\ th' = [th EXCEPT ![t].pc = IF th[t].dialect \in DOMAIN models THEN "lm_43" ELSE "lm_48"]
    /\ UNCHANGED <<models, multilingual_vocab, gen, output_dir>>
    /\ InCall
    /\ UnchangedWorld

\* line 43: return self._models[dialect]
Lm43(t) ==
    /\ th[t].pc = "lm_43"
    /\ th' = [th EXCEPT ![t] =
                IF th[t].dialect \in DOMAIN models
                THEN LmFinish(th[t], Returned(models[th[t].dialect]))
                ELSE LmFinish(th[t], Raised("KeyError", "cache"))]
    /\ UNCHANGED <<models, multilingual_vocab, gen, output_dir>>
    /\ InCall
    /\ UnchangedWorld

Lm48_NegativeCaching(t) ==
    /\ th[t].pc = "lm_48"
    /\ LET r == [th[t] EXCEPT !.fs = @ + 1]
       IN IF th[t].dialect \in dir_exists
          THEN /\ th' = [th EXCEPT ![t] = [r EXCEPT !.pc = "lm_65"]]
               /\ UNCHANGED models
          ELSE /\ th' = [th EXCEPT ![t] = LmFinish(r, Raised("FileNotFoundError", "exists"))]
               /\ models' = Put(models, th[t].dialect, NoHandle)
    /\ UNCHANGED <<multilingual_vocab, gen, output_dir>>
    /\ InCall
    /\ UnchangedWorld

\* lines 46-49: the directory check
Lm48(t) ==
    /\ th[t].pc = "lm_48"
    /\ LET r == [th[t] EXCEPT !.fs = @ + 1]
       IN IF th[t].dialect \in dir_exists
          THEN th' = [th EXCEPT ![t] = [r EXCEPT !.pc = "lm_65"]]
          ELSE th' = [th EXCEPT ![t] = LmFinish(r, Raised("FileNotFoundError", "exists"))]
    /\ UNCHANGED <<models, multilingual_vocab, gen, output_dir>>
    /\ InCall
    /\ UnchangedWorld

Lm65_NoPatch(t) ==
    /\ th[t].pc = "lm_65"
    /\ \E present \in SUBSET ModelFiles :
          th' = [th EXCEPT ![t] = [th[t] EXCEPT !.pc = "lm_101",
                                                !.warned = (present # ModelFiles)]]
    /\ UNCHANGED <<models, multilingual_vocab, gen, output_dir>>
    /\ InCall
    /\ UnchangedWorld

\* lines 55-98: patch T3Config.multilingual, then log which components exist
Lm65(t) ==
    /\ th[t].pc = "lm_65"
    /\ multilingual_vocab' = FineTunedVocab
    /\ \E present \in SUBSET ModelFiles :
          th' = [th EXCEPT ![t] = [th[t] EXCEPT !.pc = "lm_101",
                                                !.warned = (present # ModelFiles)]]
    /\ UNCHANGED <<models, gen, output_dir>>
    /\ InCall
    /\ UnchangedWorld

Lm101_StoreBeforeLoad(t) ==
    /\ th[t].pc = "lm_101"
    /\ LET d == th[t].dialect
           r == [th[t] EXCEPT !.inst = @ + 1]
       IN \/ /\ gen' = [gen EXCEPT ![d] = @ + 1]
             /\ th' = [th EXCEPT ![t] = [r EXCEPT !.pc = "lm_128", !.model = NewHandle(d)]]
             /\ UNCHANGED models
          \/ /\ \E e \in InstErrors :
                   th' = [th EXCEPT ![t] = LmFinish(r, Raised(e, "from_local"))]
             /\ models' = Put(models, d, NoHandle)
             /\ UNCHANGED gen
    /\ UNCHANGED <<multilingual_vocab, output_dir>>
    /\ InCall
    /\ UnchangedWorld

Lm101_RetriesOnce(t) ==
    /\ th[t].pc = "lm_101"
    /\ LET d == th[t].dialect
           r == [th[t] EXCEPT !.inst = @ + 1]
       IN \/ /\ gen' = [gen EXCEPT ![d] = @ + 1]
             /\ th' = [th EXCEPT ![t] = [r EXCEPT !.pc = "lm_128", !.model = NewHandle(d)]]
          \/ /\ \E e \in InstErrors :
                   th' = [th EXCEPT ![t] = IF th[t].inst = 0 THEN r
                                           ELSE LmFinish(r, Raised(e, "from_local"))]
             /\ UNCHANGED gen
    /\ UNCHANGED <<models, multilingual_vocab, output_dir>>
    /\ InCall
    /\ UnchangedWorld

\* lines 101-104 (and 137-141 when it raises): ChatterboxMultilingualTTS.from_local
Lm101(t) ==
    /\ th[t].pc = "lm_101"
    /\ LET d == th[t].dialect
           r == [th[t] EXCEPT !.inst = @ + 1]
       IN \/ /\ gen' = [gen EXCEPT ![d] = @ + 1]
             /\ th' = [th EXCEPT ![t] = [r EXCEPT !.pc = "lm_128", !.model = NewHandle(d)]]
          \/ /\ \E e \in InstErrors :
                   th' = [th EXCEPT ![t] = LmFinish(r, Raised(e, "from_local"))]
             /\ UNCHANGED gen
    /\ UNCHANGED <<models, multilingual_vocab, output_dir>>
    /\ InCall
    /\ UnchangedWorld

\* lines 128-135: self._models[dialect] = model; return model
Lm128(t) ==
    /\ th[t].pc = "lm_128"
    /\ models' = Put(models, th[t].dialect, th[t].model)
    /\ th' = [th EXCEPT ![t] = LmFinish(th[t], Returned(th[t].model))]
    /\ UNCHANGED <<multilingual_vocab, gen, output_dir>>
    /\ InCall
    /\ UnchangedWorld

CallGetModel(t, d) ==
    /\ Ready(t)
    /\ th' = [th EXCEPT ![t] = [Begin(t, "get_model", d, "gm_157") EXCEPT !.nres = 1]]
    /\ UNCHANGED <<models, multilingual_vocab, gen, output_dir>>
    /\ StartCall
    /\ UnchangedWorld

\* line 157: if dialect not in self._models: return self.load_model(dialect)
Gm157(t) ==
    /\ th[t].pc = "gm_157"
    /\ th' = [th EXCEPT ![t].pc = IF th[t].dialect \notin DOMAIN models THEN "lm_41" ELSE "gm_159"]
    /\ UNCHANGED <<models, multilingual_vocab, gen, output_dir>>
    /\ InCall
    /\ UnchangedWorld

\* line 159: return self._models[dialect]
Gm159(t) ==
    /\ th[t].pc = "gm_159"
    /\ th' = [th EXCEPT ![t] =
                IF th[t].dialect \in DOMAIN models
                THEN LmFinish(th[t], Returned(models[th[t].dialect]))
                ELSE LmFinish(th[t], Raised("KeyError", "cache"))]
    /\ UNCHANGED <<models, multilingual_vocab, gen, output_dir>>
    /\ InCall
    /\ UnchangedWorld

\* lines 143-153: the loop's first load_model call; LmFinish runs the rest
CallLoadAllModels(t) ==
    /\ Ready(t)
    /\ th' = [th EXCEPT ![t] =
                [Begin(t, "load_all_models", DialectList[1], "lm_41") EXCEPT !.idx = 1]]
    /\ UNCHANGED <<models, multilingual_vocab, gen, output_dir>>
    /\ StartCall
    /\ UnchangedWorld

ClearCache_KeepsModels(t) ==
    /\ Ready(t)
    /\ th' = [th EXCEPT ![t] = Done(Begin(t, "clear_cache", "none", "idle"), Returned(NoHandle))]
    /\ UNCHANGED <<models, multilingual_vocab, gen, output_dir>>
    /\ StartCall
    /\ UnchangedWorld

\* lines 165-170: self._models.clear()
ClearCache(t) ==
    /\ Ready(t)
    /\ models' = EmptyCache
    /\ th' = [th EXCEPT ![t] = Done(Begin(t, "clear_cache", "none", "idle"), Returned(NoHandle))]
    /\ UNCHANGED <<multilingual_vocab, gen, output_dir>>
    /\ StartCall
    /\ UnchangedWorld

\* -------------------------------------------------------- TTSService
CallGenerateAudio(t, text, d, p, ref) ==
    /\ Ready(t)
    /\ th' = [th EXCEPT ![t] = [Begin(t, "generate_audio", d, "ga_69") EXCEPT
                                  !.text = text, !.params = p, !.ref = ref]]
    /\ UNCHANGED <<models, multilingual_vocab, gen, output_dir>>
    /\ StartCall
    /\ UnchangedWorld

Ga69_NoValidation(t) ==
    /\ th[t].pc = "ga_69"
    /\ th' = [th EXCEPT ![t] =
                [th[t] EXCEPT !.pc = "gm_157", !.nres = @ + 1,
                              !.processed = preprocess_text(th[t].text)]]
    /\ UNCHANGED <<models, multilingual_vocab, gen, output_dir>>
    /\ InCall
    /\ UnchangedWorld

\* str.endswith
EndsWith(str, suffix) ==
    /\ Len(str) >= Len(suffix)
    /\ SubSeq(str, Len(str) - Len(suffix) + 1, Len(str)) = suffix

DotWav == <<".", "w", "a", "v">>
\* the names of the files callers upload
UploadNames == { <<"a", ".", "w", "a", "v">>, <<"a", ".", "m", "p", "3">>,
                 <<"w", "a", "v">>, <<"a", ".", "W", "A", "V">> }
\* an upload; the name of the uploaded file is kept in the text field
UploadRequest(filename) == [NoRequest EXCEPT !.text = filename]
\* lines 131-135: the dictionary returned after a successful save
UploadSuccess == [kind |-> "JSON", status |-> 200, path |-> PyNone]

\* POST /api/upload-reference, lines 114-138, as one step: the name check's
\* HTTPException(400) is raised inside the try, whose 'except Exception'
\* catches it like any other exception and raises HTTPException(500); the
\* file is created by open() and may be left behind when the write fails
UploadReferenceAudio(t, filename) ==
    /\ Ready(t)
    /\ LET r == [Begin(t, "upload_reference_audio", "none", "done") EXCEPT
                   !.handler = "upload_reference_audio", !.req = UploadRequest(filename)]
           file_path == TempRefPath("reference_1.wav")
       IN IF ~EndsWith(filename, DotWav)
          THEN /\ th' = [th EXCEPT ![t] = [r EXCEPT !.ret = Raised("HTTPException", "name_check"),
                                                    !.resp = HTTPException(500)]]
               /\ UNCHANGED ref_files
          ELSE \/ /\ th' = [th EXCEPT ![t] = [r EXCEPT !.ret = Returned(NoHandle),
                                                        !.resp = UploadSuccess]]
                  /\ ref_files' = ref_files \cup {file_path}
               \/ /\ th' = [th EXCEPT ![t] = [r EXCEPT !.ret = Raised("OSError", "save"),
                                                        !.resp = HTTPException(500)]]
                  /\ ref_files' \in {ref_files, ref_files \cup {file_path}}
    /\ StartCall
    /\ UNCHANGED <<models, multilingual_vocab, gen, output_dir>>
    /\ UNCHANGED <<probes, device, dir_exists, threads, texts, inputs>>

\* POST /api/generate, lines 152-175: the reference file is looked up in the
\* upload directory and passed on only if it exists there
CallGenerateTts(t, req) ==
    /\ Ready(t)
    /\ LET temp_ref_path == TempRefPath(req.reference_audio_file)
           reference_audio_path ==
               IF req.reference_audio_file # "None" /\ temp_ref_path \in ref_files
               THEN temp_ref_path ELSE "None"
       IN th' = [th EXCEPT ![t] = [Begin(t, "generate_audio", req.dialect, "ga_69") EXCEPT
                                     !.text = req.text, !.params = req.params,
                                     !.ref = reference_audio_path,
                                     !.handler = "generate_tts", !.req = req]]
    /\ StartCall
    /\ UNCHANGED <<models, multilingual_vocab, gen, output_dir>>
    /\ UnchangedWorld

\* POST /api/compare, lines 275-303: 404 for an unknown dialect or sample,
\* else synthesis of the sample's text, with the sample file as reference
\* when the request asks for it
CallCompareWithSample(t, req) ==
    /\ Ready(t)
    /\ LET found == IF req.dialect \in DOMAIN metadata
                    THEN {x \in metadata[req.dialect] : x.id = req.sample_id} ELSE {}
       IN IF found = {}
          THEN th' = [th EXCEPT ![t] =
                        [Begin(t, "compare_with_sample", req.dialect, "done") EXCEPT
                           !.handler = "compare_with_sample", !.req = req,
                           !.ret = Raised("HTTPException", "handler"),
                           !.resp = HTTPException(404)]]
          ELSE LET sample == CHOOSE x \in found : TRUE
                   reference_audio_path ==
                       IF req.use_sample_as_reference
                       THEN SamplePath(req.dialect, sample.filename) ELSE "None"
               IN th' = [th EXCEPT ![t] =
                           [Begin(t, "generate_audio", req.dialect, "ga_69") EXCEPT
                              !.text = sample.text, !.params = req.params,
                              !.ref = reference_audio_path,
                              !.handler = "compare_with_sample", !.req = req]]
    /\ StartCall
    /\ UNCHANGED <<models, multilingual_vocab, gen, output_dir>>
    /\ UnchangedWorld

\* ChatterboxAPI.generate, modal_api.py lines 243-288; its container holds
\* the four models, or load_models would have raised at start-up
ModalGenerate(t, text, d, p, ref) ==
    /\ Ready(t)
    /\ LET r0 == [Begin(t, "modal_generate", d, "done") EXCEPT
                    !.text = text, !.params = p, !.ref = ref]
           r == [r0 EXCEPT !.ngen = 1, !.kwargs = modal_gen_kwargs(text, p, ref)]
       IN IF d \notin Dialects
          THEN th' = [th EXCEPT ![t] = [r0 EXCEPT !.ret = Raised("ValueError", "validate")]]
          ELSE \/ \E e \in GenErrors :
                    th' = [th EXCEPT ![t] = [r EXCEPT !.ret = Raised(e, "generate")]]
               \/ \E w \in inputs.wavs :
                    th' = [th EXCEPT ![t] = [r EXCEPT !.wav = w, !.saved = normalized(w),
                                                     !.nwrite = 1, !.ret = ReturnedBytes]]
    /\ StartCall
    /\ UNCHANGED <<models, multilingual_vocab, gen, output_dir>>
    /\ UnchangedWorld

\* lines 68-77: validate the dialect, preprocess the text, call get_model
Ga69(t) ==
    /\ th[t].pc = "ga_69"
    /\ th' = [th EXCEPT ![t] =
                IF th[t].dialect \notin Dialects
                THEN GaFinish(th[t], Raised("ValueError", "validate"))
                ELSE [th[t] EXCEPT !.pc = "gm_157", !.nres = @ + 1,
                                   !.processed = preprocess_text(th[t].text)]]
    /\ UNCHANGED <<models, multilingual_vocab, gen, output_dir>>
    /\ InCall
    /\ UnchangedWorld

\* lines 86-102 (and 125-127 when it raises): model.generate(processed_text, **gen_kwargs)
Ga102(t) ==
    /\ th[t].pc = "ga_102"
    /\ LET r == [th[t] EXCEPT !.ngen = @ + 1,
                              !.kwargs = gen_kwargs(th[t].processed, th[t].params,
                                                    th[t].ref, ref_files)]
       IN \/ \E w \in inputs.wavs :
                th' = [th EXCEPT ![t] = [r EXCEPT !.pc = "ga_113", !.wav = w]]
          \/ \E e \in GenErrors : th' = [th EXCEPT ![t] = GaFinish(r, Raised(e, "generate"))]
    /\ UNCHANGED <<models, multilingual_vocab, gen, output_dir>>
    /\ InCall
    /\ UnchangedWorld

\* lines 107-123 and _save_audio (129-140): write the file at the derived path
Ga113(t) ==
    /\ th[t].pc = "ga_113"
    /\ LET p == default_output_path(th[t].dialect, th[t].text)
           a == normalized(th[t].wav)
           r == [th[t] EXCEPT !.nwrite = @ + 1, !.saved = a]
       IN \/ /\ output_dir' = Put(output_dir, p, File("complete", a, Arguments(r)))
             /\ th' = [th EXCEPT ![t] = GaFinish(r, ReturnedPath(p))]
          \/ /\ \E e \in GenErrors : th' = [th EXCEPT ![t] = GaFinish(r, Raised(e, "save"))]
             /\ \/ output_dir' = Put(output_dir, p, File("partial", a, Arguments(r)))
                \/ UNCHANGED output_dir
    /\ UNCHANGED <<models, multilingual_vocab, gen>>
    /\ InCall
    /\ UnchangedWorld

\* ------------------------------------------------------- environment
\* the artifacts of a name are downloaded into models_dir
ProvisionDir(d) ==
    /\ d \notin dir_exists
    /\ dir_exists' = dir_exists \cup {d}
    /\ UNCHANGED <<models, probes, device, multilingual_vocab, gen, output_dir, threads, texts,
                   inputs, ref_files, th, ncalls>>

\* ------------------------------------------------------- specifications
LoadSteps(t) ==
    \/ Lm41(t) \/ Lm43(t) \/ Lm48(t) \/ Lm65(t) \/ Lm101(t) \/ Lm128(t)
    \/ Gm157(t) \/ Gm159(t)

Next ==
    \/ \E t \in threads, d \in Names : CallLoadModel(t, d)
    \/ \E t \in threads, d \in Names : CallGetModel(t, d)
    \/ \E t \in threads : CallLoadAllModels(t)
    \/ \E t \in threads : ClearCache(t)
    \/ \E t \in threads, text \in texts, d \in Names, p \in inputs.params, ref \in inputs.refs :
          CallGenerateAudio(t, text, d, p, ref)
    \/ \E t \in threads : LoadSteps(t)
    \/ \E t \in threads : Ga69(t)
    \/ \E t \in threads : Ga102(t)
    \/ \E t \in threads : Ga113(t)
    \/ \E d \in Names : ProvisionDir(d)

Spec == Init /\ [][Next]_vars

\* the registry under concurrent callers
NextConc ==
    \/ \E t \in threads, d \in Names : CallLoadModel(t, d)
    \/ \E t \in threads, d \in Names : CallGetModel(t, d)
    \/ \E t \in threads : ClearCache(t)
    \/ \E t \in threads : LoadSteps(t)
    \/ \E d \in Names : ProvisionDir(d)

SpecConc == InitConc /\ [][NextConc]_vars

\* one caller on any host (with or without mps, with or without cuda), the
\* four dialects downloaded
InitDevice ==
    /\ InitWorld(BOOLEAN, BOOLEAN, {Dialects})
    /\ threads = {1}
    /\ texts = OneText
    /\ inputs = PlainInputs
    /\ ref_files = {}
    /\ th = [t \in threads |-> Idle]

\* every way a handle comes to exist: load_model, load_all_models, and
\* generate_audio through get_model; clear_cache between them
NextDevice ==
    \/ \E t \in threads, d \in Names : CallLoadModel(t, d)
    \/ \E t \in threads : CallLoadAllModels(t)
    \/ \E t \in threads : ClearCache(t)
    \/ \E t \in threads, text \in texts, d \in Names, p \in inputs.params, ref \in inputs.refs :
          CallGenerateAudio(t, text, d, p, ref)
    \/ \E t \in threads : LoadSteps(t)
    \/ \E t \in threads : Ga69(t)
    \/ \E t \in threads : Ga102(t)
    \/ \E t \in threads : Ga113(t)

SpecDevice == InitDevice /\ [][NextDevice]_vars

\* ---------------------------------------------------------------- claims
\* every text up to MaxTextLen, one per run, always for the first dialect
InitText ==
    /\ InitWorld({FALSE}, {FALSE}, {Dialects})
    /\ threads = {1}
    /\ texts \in {{x} : x \in AllTexts}
    /\ inputs = [PlainInputs EXCEPT !.calls = TextCalls]
    /\ ref_files = {}
    /\ th = [t \in threads |-> Idle]

NextText ==
    \/ \E t \in threads, text \in texts, p \in inputs.params, ref \in inputs.refs :
          CallGenerateAudio(t, text, DialectList[1], p, ref)
    \/ \E t \in threads, text \in texts, p \in inputs.params, ref \in inputs.refs :
          ModalGenerate(t, text, DialectList[1], p, ref)
    \/ \E t \in threads : LoadSteps(t)
    \/ \E t \in threads : Ga69(t)
    \/ \E t \in threads : Ga102(t)
    \/ \E t \in threads : Ga113(t)

SpecText == InitText /\ [][NextText]_vars

\* every waveform up to MaxSamples samples, one per run
InitWav ==
    /\ InitWorld({FALSE}, {FALSE}, {Dialects})
    /\ threads = {1}
    /\ texts = OneText
    /\ inputs \in {[PlainInputs EXCEPT !.wavs = {w}, !.calls = TextCalls] : w \in AllWavs}
    /\ ref_files = {}
    /\ th = [t \in threads |-> Idle]

SpecWav == InitWav /\ [][NextText]_vars

\* the names of uploaded reference files and the sample ids requests carry
RefNames == {"None", "reference_1.wav"}
SampleIds == {"sample1", "sample9"}
\* the files that may or may not be on disk
RefFiles == {TempRefPath("reference_1.wav"), SamplePath(DialectList[1], "sample1.wav")}
\* the dialect fields of the requests to /api/generate
SynthNames == {DialectList[1]} \cup OtherNames

\* synthesis, called directly or through the two endpoints, with both
\* parameter records, with and without a reference, the reference files
\* all present or all missing
InitTTS ==
    /\ InitWorld({FALSE}, {FALSE}, {Dialects})
    /\ threads = {1}
    /\ texts = TwoTexts
    /\ inputs = [params |-> {DefaultParams, WildParams}, refs |-> {"None"} \cup RefPaths,
                 wavs |-> {OneWav, StereoWav}, calls |-> SynthCalls]
    /\ ref_files \in {{}, RefFiles}
    /\ th = [t \in threads |-> Idle]

NextTTS ==
    \/ \E t \in threads, text \in texts, p \in inputs.params, ref \in inputs.refs :
          CallGenerateAudio(t, text, DialectList[1], p, ref)
    \/ \E t \in threads, text \in texts, d \in SynthNames, p \in inputs.params,
          file \in RefNames :
          CallGenerateTts(t, TTSRequest(text, d, p, file))
    \/ \E t \in threads, id \in SampleIds, p \in inputs.params, use \in BOOLEAN :
          CallCompareWithSample(t, CompareRequest(DialectList[1], id, p, use))
    \/ \E t \in threads, text \in texts, p \in inputs.params, ref \in inputs.refs :
          ModalGenerate(t, text, DialectList[1], p, ref)
    \/ \E t \in threads : LoadSteps(t)
    \/ \E t \in threads : Ga69(t)
    \/ \E t \in threads : Ga102(t)
    \/ \E t \in threads : Ga113(t)

SpecTTS == InitTTS /\ [][NextTTS]_vars

\* requests to the two synthesis endpoints, valid and invalid dialects, the
\* model directories all present or all absent
InitHttp ==
    /\ InitWorld({FALSE}, {FALSE}, {{}, Dialects})
    /\ threads = {1}
    /\ texts = OneText
    /\ inputs = [PlainInputs EXCEPT !.calls = SynthCalls]
    /\ ref_files \in {{}, RefFiles}
    /\ th = [t \in threads |-> Idle]

NextHttp ==
    \/ \E t \in threads, text \in texts, d \in SynthNames, p \in inputs.params,
          file \in RefNames :
          CallGenerateTts(t, TTSRequest(text, d, p, file))
    \/ \E t \in threads, d \in SynthNames, id \in SampleIds, p \in inputs.params,
          use \in BOOLEAN :
          CallCompareWithSample(t, CompareRequest(d, id, p, use))
    \/ \E t \in threads, filename \in UploadNames : UploadReferenceAudio(t, filename)
    \/ \E t \in threads : LoadSteps(t)
    \/ \E t \in threads : Ga69(t)
    \/ \E t \in threads : Ga102(t)
    \/ \E t \in threads : Ga113(t)

SpecHttp == InitHttp /\ [][NextHttp]_vars

\* the callers of the runs with fairness
LiveThreads == {1}

\* one caller, the first dialect downloaded or not; a call that has begun
\* keeps running: every step of it that can be taken is taken eventually
InitLive ==
    /\ InitWorld({FALSE}, {FALSE}, {{}, {DialectList[1]}, Dialects})
    /\ threads = LiveThreads
    /\ texts = OneText
    /\ inputs = [PlainInputs EXCEPT !.calls = TextCalls]
    /\ ref_files = {}
    /\ th = [t \in threads |-> Idle]

NextLive ==
    \/ \E t \in threads, d \in SynthNames : CallLoadModel(t, d)
    \/ \E t \in threads, d \in SynthNames : CallGetModel(t, d)
    \/ \E t \in threads : CallLoadAllModels(t)
    \/ \E t \in threads : ClearCache(t)
    \/ \E t \in threads, text \in texts, d \in SynthNames, p \in inputs.params,
          ref \in inputs.refs :
          CallGenerateAudio(t, text, d, p, ref)
    \/ \E t \in threads : LoadSteps(t)
    \/ \E t \in threads : Ga69(t)
    \/ \E t \in threads : Ga102(t)
    \/ \E t \in threads : Ga113(t)

Running(t) == LoadSteps(t) \/ Ga69(t) \/ Ga102(t) \/ Ga113(t)

SpecLive == InitLive /\ [][NextLive]_vars /\ \A t \in LiveThreads : WF_vars(Running(t))

ResolveOps == {"load_model", "get_model"}

\* caller t has finished a load_model / get_model call
ResolveDone(t) == th[t].pc = "done" /\ th[t].op \in ResolveOps

\* C1: when two resolve calls for the same uncached dialect run (one per caller,
\* and nothing else has been called), the dialect is instantiated at most once
\* and both callers end up with the one handle that is stored in the cache.
C1_AtMostOneLoad ==
    \A t1 \in threads, t2 \in threads :
        ( /\ t1 # t2
          /\ ncalls = 2
          /\ th[t1].op \in ResolveOps /\ th[t2].op \in ResolveOps
          /\ th[t1].dialect = th[t2].dialect )
        => /\ gen[th[t1].dialect] <= 1
           /\ ( th[t1].ret.kind = "ok" /\ th[t2].ret.kind = "ok" )
              => /\ th[t1].ret.val = th[t2].ret.val
                 /\ th[t1].dialect \in DOMAIN models
                 /\ models[th[t1].dialect] = th[t1].ret.val

\* C2: a resolve call for a dialect that is cached when the call starts returns
\* the cached handle itself, checks no directory, instantiates nothing and
\* leaves the cache as it was.
C2_CacheHit ==
    \A t \in threads :
        ( ResolveDone(t) /\ th[t].dialect \in DOMAIN th[t].snap )
        => /\ th[t].ret = Returned(th[t].snap[th[t].dialect])
           /\ th[t].fs = 0
           /\ th[t].inst = 0
           /\ models = th[t].snap

\* a cache hit on the handle an earlier call has loaded
C2_Witness ==
    \E t \in threads :
        /\ ResolveDone(t)
        /\ th[t].dialect \in DOMAIN th[t].snap
        /\ th[t].ret.val.gen = 1
        /\ th[t].ret.val.dialect = th[t].dialect

\* C3: with the artifact directory absent resolve raises FileNotFoundError
\* (ModelNotFound) after one directory check and the cache is as before, with
\* no entry for the dialect; a resolve of the same dialect after such a failure
\* that finds the directory and instantiates the model returns it, cached.
C3_NoNegativeCaching ==
    \A t \in threads :
        ResolveDone(t)
        => /\ ( th[t].ret.kind = "raise" /\ th[t].ret.origin = "exists" )
              => /\ Classify(th[t].ret.exc) = "ModelNotFound"
                 /\ th[t].fs = 1
                 /\ th[t].dialect \notin DOMAIN models
                 /\ models = th[t].snap
           /\ ( th[t].prev = "exists" /\ th[t].model # NoHandle )
              => /\ th[t].ret = Returned(th[t].model)
                 /\ th[t].dialect \in DOMAIN models
                 /\ models[th[t].dialect] = th[t].model

\* the retry after provisioning: the previous call failed on the missing
\* directory, this one loaded the model
C3_Witness ==
    \E t \in threads :
        /\ ResolveDone(t)
        /\ th[t].prev = "exists"
        /\ th[t].ret.kind = "ok"
        /\ th[t].dialect \in Dialects
        /\ models[th[t].dialect] = th[t].ret.val

\* C4: when from_local raises, the cache is exactly what it was before the call
\* (no entry for the dialect, the others untouched), and the next resolve of
\* that dialect checks the directory and calls from_local again.
C4_FailedLoadLeavesCache ==
    \A t \in threads :
        ResolveDone(t)
        => /\ ( th[t].ret.kind = "raise" /\ th[t].ret.origin = "from_local" )
              => /\ models = th[t].snap
                 /\ th[t].dialect \notin DOMAIN models
           /\ th[t].prev = "from_local"
              => /\ th[t].fs = 1
                 /\ th[t].inst = 1

\* a second failed load of a dialect, with another dialect in the cache
C4_Witness ==
    \E t \in threads :
        /\ ResolveDone(t)
        /\ th[t].prev = "from_local"
        /\ th[t].ret.kind = "raise" /\ th[t].ret.origin = "from_local"
        /\ models # EmptyCache

\* C5: an exception of from_local reaches the caller of resolve as a
\* ModelLoadFailed, told apart from the ModelNotFound of an absent directory,
\* whatever from_local raised; a missing component alone does not fail resolve.
C5_LoadFailedDistinct ==
    \A t \in threads :
        ResolveDone(t)
        => /\ ( th[t].ret.kind = "raise" /\ th[t].ret.origin = "from_local" )
              => Classify(th[t].ret.exc) = "ModelLoadFailed"
           /\ ( th[t].ret.kind = "raise" /\ th[t].ret.origin = "exists" )
              => Classify(th[t].ret.exc) = "ModelNotFound"
           /\ ( th[t].warned /\ th[t].model # NoHandle ) => th[t].ret.kind = "ok"

\* C6: resolve of a name outside the closed set raises ValueError
\* (InvalidDialect) without a directory check and without changing the cache.
C6_ResolveRejectsInvalid ==
    \A t \in threads :
        ( ResolveDone(t) /\ th[t].dialect \notin Dialects )
        => /\ th[t].ret.kind = "raise"
           /\ Classify(th[t].ret.exc) = "InvalidDialect"
           /\ th[t].fs = 0
           /\ th[t].inst = 0
           /\ models = th[t].snap

\* C7: generate_audio of a name outside the closed set raises ValueError
\* (InvalidDialect) before anything else: get_model is not called, the cache
\* and the output directory are as before, generate and save are not invoked.
C7_SynthesizeRejectsInvalid ==
    \A t \in threads :
        ( th[t].pc = "done" /\ th[t].op = "generate_audio" /\ th[t].dialect \notin Dialects )
        => /\ th[t].ret = Raised("ValueError", "validate")
           /\ Classify(th[t].ret.exc) = "InvalidDialect"
           /\ th[t].nres = 0 /\ th[t].fs = 0 /\ th[t].inst = 0
           /\ th[t].ngen = 0 /\ th[t].nwrite = 0
           /\ models = th[t].snap
           /\ output_dir = th[t].snap_out

\* the rejected name has a directory under models_dir, and a model is cached
C7_Witness ==
    \E t \in threads :
        /\ th[t].pc = "done" /\ th[t].op = "generate_audio"
        /\ th[t].dialect \notin Dialects
        /\ th[t].dialect \in dir_exists
        /\ models # EmptyCache

\* C8: whenever from_local is about to run the patch is in effect, a patch in
\* effect stays in effect in every step, and every handle (cached, held by a
\* caller, or returned) was built with vocabulary size 2454.
C8_HandlesPatched ==
    /\ \A t \in threads :
          /\ th[t].pc = "lm_101" => multilingual_vocab = FineTunedVocab
          /\ th[t].model # NoHandle => th[t].model.vocab = FineTunedVocab
          /\ th[t].ret.val # NoHandle => th[t].ret.val.vocab = FineTunedVocab
    /\ \A d \in DOMAIN models : models[d].vocab = FineTunedVocab

C8_VocabOverride ==
    /\ []C8_HandlesPatched
    /\ [][multilingual_vocab = FineTunedVocab => multilingual_vocab' = FineTunedVocab]_vars

\* a dialect reloaded after an evict, next to a failed load, all under the patch
C8_Witness ==
    \E t \in threads, d \in Dialects :
        /\ d \in DOMAIN models
        /\ models[d].gen = 2
        /\ models[d].vocab = FineTunedVocab
        /\ multilingual_vocab = FineTunedVocab

\* C9: load_all_models returns normally after attempting each of the four
\* dialects; a failure (FileNotFoundError or other) of one does not stop the
\* next; afterwards exactly the dialects whose load_model returned are cached,
\* next to what was cached before.
C9_LoadAllPartial ==
    \A t \in threads :
        ( th[t].pc = "done" /\ th[t].op = "load_all_models" )
        => /\ th[t].ret.kind = "ok"
           /\ DOMAIN th[t].outcomes = Dialects
           /\ \A d \in Dialects : (th[t].outcomes[d] = "ok") <=> (d \in DOMAIN models)
           /\ \A d \in DOMAIN th[t].snap : d \in DOMAIN models /\ models[d] = th[t].snap[d]
           /\ DOMAIN models \subseteq DOMAIN th[t].snap \cup Dialects

\* the first dialect is not found, a later one fails to load, another loads
C9_Witness ==
    \E t \in threads :
        /\ th[t].pc = "done" /\ th[t].op = "load_all_models"
        /\ th[t].outcomes["egyptian"] = "FileNotFoundError"
        /\ th[t].outcomes["emirates"] = "RuntimeError"
        /\ th[t].outcomes["kuwaiti"] = "ok"
        /\ "kuwaiti" \in DOMAIN models

\* C10: clear_cache leaves the cache empty, and the resolve that follows it
\* checks the directory and, when it returns a handle, has instantiated it in
\* this call: a handle newer than every handle that existed before.
C10_EvictThenReload ==
    \A t \in threads :
        /\ ( th[t].pc = "done" /\ th[t].op = "clear_cache" ) => models = EmptyCache
        /\ ( ResolveDone(t) /\ th[t].prev = "clear_cache" )
           => /\ th[t].snap = EmptyCache
              /\ th[t].fs = 1
              /\ th[t].ret.kind = "ok"
                 => /\ th[t].inst = 1
                    /\ th[t].ret.val.gen = th[t].gen0[th[t].dialect] + 1
                    /\ models[th[t].dialect] = th[t].ret.val

\* the dialect was loaded, evicted and is loaded again
C10_Witness ==
    \E t \in threads :
        /\ ResolveDone(t)
        /\ th[t].prev = "clear_cache"
        /\ th[t].ret.kind = "ok"
        /\ th[t].ret.val.gen = 2

\* C11: the device is mps when mps is available, else cuda when cuda is
\* available, else cpu; no step changes it; every handle that exists (cached,
\* held by a caller or returned), for every dialect and before or after a
\* clear_cache, is bound to it.
C11_HandlesOnDevice ==
    /\ device = (IF probes.mps THEN "mps" ELSE IF probes.cuda THEN "cuda" ELSE "cpu")
    /\ \A d \in DOMAIN models : models[d].device = device
    /\ \A t \in threads :
          /\ th[t].model # NoHandle => th[t].model.device = device
          /\ th[t].ret.val # NoHandle => th[t].ret.val.device = device

C11_DeviceFixed ==
    /\ []C11_HandlesOnDevice
    /\ [][device' = device /\ probes' = probes]_vars

\* on a host with both accelerators: a dialect reloaded after clear_cache and
\* another dialect, both on mps
C11_Witness ==
    \E d1 \in Dialects, d2 \in Dialects :
        /\ probes.mps /\ probes.cuda
        /\ d1 # d2
        /\ d1 \in DOMAIN models /\ d2 \in DOMAIN models
        /\ models[d1].gen = 2
        /\ models[d1].device = "mps" /\ models[d2].device = "mps"

\* ---------------------------------------------------------------- C12
\* the maximal runs of non-whitespace characters of s, by their positions
TokenStarts(s) == {i \in 1..Len(s) : s[i] \notin Whitespace /\ (i = 1 \/ s[i - 1] \in Whitespace)}
TokenEnd(s, i) == CHOOSE j \in i..Len(s) :
                      /\ \A k \in i..j : s[k] \notin Whitespace
                      /\ (j = Len(s) \/ s[j + 1] \in Whitespace)
\* the tokens of s, each with its rank
TokensOf(s) == {<<Cardinality({j \in TokenStarts(s) : j <= i}), SubSeq(s, i, TokenEnd(s, i))>> :
                  i \in TokenStarts(s)}

Trimmed(s) == s = <<>> \/ (s[1] \notin Whitespace /\ s[Len(s)] \notin Whitespace)
SingleSpaced(s) ==
    /\ \A i \in 1..Len(s) : s[i] \in Whitespace => s[i] = " "
    /\ \A i \in 1..(Len(s) - 1) : ~(s[i] \in Whitespace /\ s[i + 1] \in Whitespace)

\* C12: the normalized text of a synthesis is trimmed, single-spaced and has
\* exactly the tokens of the input text in their order, and it is the
\* normalized text that model.generate receives.
C12_NormalizedText ==
    \A t \in threads :
        (th[t].op = "generate_audio" /\ th[t].pc \in {"gm_157", "ga_102", "ga_113", "done"}
                                    /\ th[t].dialect \in Dialects) =>
            /\ Trimmed(th[t].processed)
            /\ SingleSpaced(th[t].processed)
            /\ TokensOf(th[t].processed) = TokensOf(th[t].text)
            /\ th[t].ngen > 0 => th[t].kwargs.text = th[t].processed

C12_Witness ==
    \E t \in threads :
        /\ th[t].pc = "done" /\ th[t].ret.kind = "ok"
        /\ th[t].text = <<"a", " ", "\t", "b">>
        /\ th[t].kwargs.text = <<"a", " ", "b">>

\* ---------------------------------------------------------------- C13
\* C13: whenever model.generate has been called, it received language_id "ar"
\* and the caller's five sampling parameters unchanged, whatever their values;
\* for a call made by an endpoint these are the parameters of the request.
C13_ParamsVerbatim ==
    \A t \in threads :
        th[t].ngen > 0 =>
            /\ th[t].handler # "none" => th[t].params = th[t].req.params
            /\ th[t].kwargs.language_id = "ar"
            /\ th[t].kwargs.temperature = th[t].params.temperature
            /\ th[t].kwargs.repetition_penalty = th[t].params.repetition_penalty
            /\ th[t].kwargs.top_p = th[t].params.top_p
            /\ th[t].kwargs.min_p = th[t].params.min_p
            /\ th[t].kwargs.cfg_weight = th[t].params.cfg_weight

C13_Witness ==
    \E t \in threads :
        /\ th[t].pc = "done" /\ th[t].ret.kind = "ok" /\ th[t].ngen = 1
        /\ th[t].handler = "generate_tts" /\ th[t].req.params = WildParams
        /\ th[t].kwargs.temperature = -100 /\ th[t].kwargs.top_p = 250
        /\ th[t].kwargs.language_id = "ar"

\* ---------------------------------------------------------------- C14
\* the reference path a synthesis was asked to use: the argument of
\* generate_audio, or the uploaded file named by the request of generate_tts
SuppliedRef(r) ==
    IF r.handler = "generate_tts"
    THEN (IF r.req.reference_audio_file = "None" THEN "None"
          ELSE TempRefPath(r.req.reference_audio_file))
    ELSE r.ref

\* C14: model.generate receives the reference as audio_prompt_path exactly
\* when a reference was supplied and its file exists; a supplied but missing
\* reference raises nothing: whatever a synthesis raises comes from the
\* dialect check, the model load, model.generate or the write.
C14_ReferenceIfExists ==
    \A t \in threads :
        th[t].op = "generate_audio" =>
            /\ th[t].ngen > 0 =>
                  /\ th[t].kwargs.audio_prompt_path # "absent"
                        <=> (SuppliedRef(th[t]) # "None" /\ SuppliedRef(th[t]) \in ref_files)
                  /\ th[t].kwargs.audio_prompt_path \in {"absent", SuppliedRef(th[t])}
            /\ (th[t].pc = "done" /\ th[t].ret.kind = "raise") =>
                  th[t].ret.origin \in {"validate", "exists", "from_local", "generate", "save"}
            /\ (th[t].pc \in {"ga_113", "done"} /\ SuppliedRef(th[t]) \notin ref_files
                   /\ th[t].ret.origin \notin {"validate", "exists", "from_local"}) =>
                  th[t].ngen = 1 /\ th[t].kwargs.audio_prompt_path = "absent"

\* a supplied reference whose file is missing, and the synthesis returned
C14_Witness ==
    \E t \in threads :
        /\ th[t].pc = "done" /\ th[t].ret.kind = "ok" /\ th[t].handler = "none"
        /\ th[t].ref \in RefPaths /\ th[t].ref \notin ref_files
        /\ th[t].kwargs.audio_prompt_path = "absent" /\ th[t].nwrite = 1

\* ---------------------------------------------------------------- C15
\* C15: a compare request that asks for the sample as reference, while the
\* sample's audio file is missing, never reaches model.generate and ends in
\* an error response.
C15_MissingSampleHardError ==
    \A t \in threads :
        (/\ th[t].handler = "compare_with_sample" /\ th[t].op = "generate_audio"
         /\ th[t].req.use_sample_as_reference
         /\ th[t].ref \notin ref_files) =>
            /\ th[t].ngen = 0
            /\ th[t].nwrite = 0
            /\ th[t].pc = "done" => th[t].resp.kind = "HTTPException"

\* ---------------------------------------------------------------- C16
\* C16: a synthesis that returned has written its audio to the file it
\* names; every file an earlier call with the same text and dialect wrote is
\* that same file, whatever the parameters and the reference of that call
\* were, and the directory gained no other file: the earlier content is gone.
C16_SameNameOverwrites ==
    \A t \in threads :
        (th[t].op = "generate_audio" /\ th[t].pc = "done" /\ th[t].ret.kind = "ok") =>
            LET p == th[t].ret.path.path
            IN /\ p \in DOMAIN output_dir
               /\ output_dir[p] = File("complete", th[t].saved, Arguments(th[t]))
               /\ \A q \in DOMAIN th[t].snap_out :
                     (/\ th[t].snap_out[q].by.text = th[t].text
                      /\ th[t].snap_out[q].by.dialect = th[t].dialect) => q = p
               /\ DOMAIN output_dir = DOMAIN th[t].snap_out \cup {p}
               /\ \A q \in DOMAIN th[t].snap_out : q # p => output_dir[q] = th[t].snap_out[q]

\* the same text and dialect synthesized twice with different parameters,
\* reference and audio: one file, holding the second audio
C16_Witness ==
    \E t \in threads :
        /\ th[t].op = "generate_audio" /\ th[t].pc = "done" /\ th[t].ret.kind = "ok"
        /\ th[t].ret.path.path \in DOMAIN th[t].snap_out
        /\ LET old == th[t].snap_out[th[t].ret.path.path]
           IN /\ old.status = "complete"
              /\ old.by.params # th[t].params /\ old.by.ref # th[t].ref
              /\ old.audio # th[t].saved
        /\ th[t].text = <<" ", "a", " ", " ", "b">>
        /\ Cardinality(DOMAIN output_dir) = 1

\* ---------------------------------------------------------------- C17
\* C17: after a synthesis failed in model.generate or in the write, every
\* file of the output directory is complete, and a failure of model.generate
\* left the directory as the call found it.
C17_NoPartialArtifact ==
    \A t \in threads :
        (/\ th[t].op = "generate_audio" /\ th[t].pc = "done" /\ th[t].ret.kind = "raise"
         /\ th[t].ret.origin \in {"generate", "save"}) =>
            /\ \A p \in DOMAIN output_dir : output_dir[p].status = "complete"
            /\ th[t].ret.origin = "generate" => output_dir = th[t].snap_out

\* ---------------------------------------------------------------- C18
\* the samples of a tensor, by position; a position is <<channel, index>>
\* and a flat tensor is one channel
Positions(a) ==
    IF a.dim = 1 THEN {<<1, i>> : i \in DOMAIN a.data}
    ELSE {<<c, i>> : c \in DOMAIN a.data, i \in 1..Len(a.data[1])}
At(a, pos) == IF a.dim = 1 THEN a.data[pos[2]] ELSE a.data[pos[1]][pos[2]]
Silent(a) == \A pos \in Positions(a) : At(a, pos) = 0

\* C18: the tensor written for a waveform that is not silent has the
\* samples of the waveform at the same positions (a flat waveform as one
\* channel), each a fraction of absolute value at most 1, one of them of
\* absolute value 1, with the sign of the sample and in the proportions of
\* the samples.
C18_PeakNormalized ==
    \A t \in threads :
        (th[t].nwrite > 0 /\ ~Silent(th[t].wav)) =>
            LET w == th[t].wav
                a == th[t].saved
            IN /\ a.dim = 2
               /\ Positions(a) = Positions(w)
               /\ w.dim = 1 => Len(a.data) = 1
               /\ \A pos \in Positions(a) :
                     /\ At(a, pos)[2] > 0
                     /\ Abs(At(a, pos)[1]) <= At(a, pos)[2]
                     /\ At(a, pos)[1] * At(w, pos) >= 0
                     /\ At(a, pos)[1] = 0 <=> At(w, pos) = 0
               /\ \E pos \in Positions(a) : Abs(At(a, pos)[1]) = At(a, pos)[2]
               /\ \A p1, p2 \in Positions(a) :
                     At(a, p1)[1] * At(a, p2)[2] * At(w, p2)
                        = At(a, p2)[1] * At(a, p1)[2] * At(w, p1)

\* a flat waveform whose peak is a negative sample, written
C18_Witness ==
    \E t \in threads :
        /\ th[t].pc = "done" /\ th[t].ret.kind = "ok"
        /\ th[t].wav = [dim |-> 1, data |-> <<1, -2>>]
        /\ th[t].saved = [dim |-> 2, data |-> << << <<1, 2>>, <<-2, 2>> >> >>]
        /\ \E p \in DOMAIN output_dir : output_dir[p].audio = th[t].saved

\* ---------------------------------------------------------------- C19
\* C19: the tensor written for a silent waveform has no sample that is a
\* division by zero, and is silence.
C19_SilenceWellDefined ==
    \A t \in threads :
        (th[t].nwrite > 0 /\ Silent(th[t].wav)) =>
            \A pos \in Positions(th[t].saved) :
                At(th[t].saved, pos)[2] # 0 /\ At(th[t].saved, pos)[1] = 0

\* ---------------------------------------------------------------- C20
\* C20: a synthesis that returned has returned the path of the file it
\* wrote, and an endpoint that answers with a file response has given it
\* that path as its path argument.
C20_ReturnsWrittenPath ==
    \A t \in threads :
        (th[t].op = "generate_audio" /\ th[t].pc = "done" /\ th[t].ret.kind = "ok") =>
            \E p \in DOMAIN output_dir :
                /\ output_dir[p].by = Arguments(th[t])
                /\ th[t].ret.path = PyPath(p)
                /\ th[t].handler # "none" => th[t].resp = FileResponse(PyPath(p))

\* ---------------------------------------------------------------- C21
\* a step that is a clear_cache call
IsEvict == \E t \in threads : ClearCache(t)

\* C21: in every step that is not a clear_cache, every cached dialect stays
\* cached with the same handle.
C21_EntryStableUntilEvict ==
    [][IsEvict \/ \A d \in DOMAIN models : d \in DOMAIN models' /\ models'[d] = models[d]]_vars

\* ---------------------------------------------------------------- C22
\* C22: every key of the cache is one of the four dialects.
C22_KeysInClosedSet == DOMAIN models \subseteq Dialects

\* ---------------------------------------------------------------- C23
\* C23: a synthesis whose model load failed (directory absent, or from_local
\* raised) ends with the exception of that failure, has not called
\* model.generate and has written nothing; model.generate is only ever
\* called with the handle the resolve returned.
C23_ResolveFailurePropagates ==
    \A t \in threads :
        th[t].op = "generate_audio" =>
            /\ (th[t].pc = "done" /\ th[t].ret.kind = "raise"
                   /\ th[t].ret.origin \in {"exists", "from_local"}) =>
                  /\ th[t].ret.origin = "exists" => th[t].ret.exc = "FileNotFoundError"
                  /\ th[t].ret.origin = "from_local" => th[t].ret.exc \in InstErrors
                  /\ th[t].fs = 1 /\ th[t].inst = (IF th[t].ret.origin = "exists" THEN 0 ELSE 1)
                  /\ th[t].ngen = 0 /\ th[t].nwrite = 0
                  /\ output_dir = th[t].snap_out
                  /\ models = th[t].snap
            /\ th[t].ngen > 0 =>
                  /\ th[t].model # NoHandle
                  /\ th[t].model.dialect = th[t].dialect

C23_Witness ==
    \E t \in threads :
        /\ th[t].op = "generate_audio" /\ th[t].pc = "done"
        /\ th[t].ret = Raised("FileNotFoundError", "exists")
        /\ th[t].dialect \in Dialects
        /\ output_dir # EmptyCache

\* ---------------------------------------------------------------- C24
\* what one call has done so far stays within one attempt of each kind
AttemptOnce ==
    \A t \in threads :
        /\ th[t].op \in ResolveOps => th[t].fs <= 1 /\ th[t].inst <= 1
        /\ th[t].op = "generate_audio" =>
              /\ th[t].nres <= 1 /\ th[t].fs <= 1 /\ th[t].inst <= 1
              /\ th[t].ngen <= 1 /\ th[t].nwrite <= 1
        /\ th[t].pc = "done" => th[t].ret.kind \in {"ok", "raise"}

\* C24: a resolve call instantiates at most once; a synthesis resolves,
\* generates and writes at most once each; and every call that has begun
\* ends, with a value or with an exception.
C24_AttemptOnceAndTerminates ==
    /\ []AttemptOnce
    /\ \A t \in LiveThreads : (th[t].pc \notin {"idle", "done"}) ~> (th[t].pc = "done")

\* a synthesis that succeeded with one instantiation, after the caller's
\* previous call for the dialect had failed in from_local
C24_Witness ==
    \E t \in threads :
        /\ th[t].op = "generate_audio" /\ th[t].pc = "done" /\ th[t].ret.kind = "ok"
        /\ th[t].prev = "from_local"
        /\ th[t].nres = 1 /\ th[t].inst = 1 /\ th[t].ngen = 1 /\ th[t].nwrite = 1

C26_UploadRejectsNonWav ==
    \A t \in threads :
        (th[t].pc = "done" /\ th[t].handler = "upload_reference_audio") =>
            /\ ~EndsWith(th[t].req.text, DotWav) => th[t].resp = HTTPException(400)
            /\ th[t].resp.status = 500 =>
                  EndsWith(th[t].req.text, DotWav) /\ th[t].ret.origin = "save"

====
